---- MODULE Spec2Model ----
(***************************************************************************)
(* Model of the Monte Carlo preflop solver service                         *)
(* (solver_service/app.py): request validation, the trial loop of          *)
(* _simulate, the 5-of-7 hand evaluator and the result aggregation of      *)
(* evaluate.                                                               *)
(*                                                                         *)
(* Strings are sequences of one-character strings, so that upper(),        *)
(* lower(), concatenation and Python's substring test `x in "..."` are     *)
(* modelled by what they do.  Probabilities are exact rationals kept as    *)
(* integer numerators over a common denominator.                           *)
(***************************************************************************)
EXTENDS Integers, Sequences, FiniteSets, TLC

(***************************************************************************)
(* Cards                                                                   *)
(***************************************************************************)

\* ALL_RANKS = "23456789TJQKA"
ALL_RANKS == <<"2", "3", "4", "5", "6", "7", "8", "9", "T", "J", "Q", "K", "A">>

\* ALL_SUITS = "cdhs"
ALL_SUITS == <<"c", "d", "h", "s">>

\* ALL_CARDS = [r + s for r in ALL_RANKS for s in ALL_SUITS]
ALL_CARDS ==
    [i \in 1..(Len(ALL_RANKS) * Len(ALL_SUITS)) |->
        << ALL_RANKS[((i - 1) \div Len(ALL_SUITS)) + 1],
           ALL_SUITS[((i - 1) % Len(ALL_SUITS)) + 1] >>]

\* RANK_TO_VALUE = {rank: index + 2 for index, rank in enumerate(ALL_RANKS)}
RANK_TO_VALUE ==
    [r \in {ALL_RANKS[i] : i \in 1..Len(ALL_RANKS)} |->
        (CHOOSE i \in 1..Len(ALL_RANKS) : ALL_RANKS[i] = r) + 1]

(***************************************************************************)
(* Python helpers                                                          *)
(***************************************************************************)

RECURSIVE TupleLess(_, _)

\* A comparison by length first (not Python's).
TupleLess_ByLength(a, b) ==
    IF Len(a) # Len(b) THEN Len(a) < Len(b)
    ELSE IF a = <<>> THEN FALSE
    ELSE IF Head(a) # Head(b) THEN Head(a) < Head(b)
    ELSE TupleLess(Tail(a), Tail(b))

\* Python's tuple comparison a < b: lexicographic, a proper prefix is smaller.
TupleLess(a, b) ==
    IF a = <<>> THEN b # <<>>
    ELSE IF b = <<>> THEN FALSE
    ELSE IF Head(a) # Head(b) THEN Head(a) < Head(b)
    ELSE TupleLess(Tail(a), Tail(b))

\* sorted(xs, reverse=True) for a list of integers (duplicates kept).
RECURSIVE SortedDesc(_)
SortedDesc(xs) ==
    IF xs = <<>> THEN <<>>
    ELSE LET m == CHOOSE i \in 1..Len(xs) : \A j \in 1..Len(xs) : xs[j] <= xs[i]
         IN  <<xs[m]>> \o SortedDesc([k \in 1..(Len(xs) - 1) |->
                                        IF k < m THEN xs[k] ELSE xs[k + 1]])

\* sorted(set(xs)) for a set of integers: ascending, no duplicates.
RECURSIVE SortedAsc(_)
SortedAsc(S) ==
    IF S = {} THEN <<>>
    ELSE LET m == CHOOSE x \in S : \A y \in S : x <= y
         IN  <<m>> \o SortedAsc(S \ {m})

\* max() of a non-empty set of integers.
MaxOf(S) == CHOOSE x \in S : \A y \in S : y <= x

(***************************************************************************)
(* Hand evaluator                                                          *)
(***************************************************************************)

\* _straight_high without the ace counted as 1.
_straight_high_NoWheel(ranks) ==
    LET unique == SortedAsc({ranks[i] : i \in 1..Len(ranks)})
        hits   == {i \in 1..(Len(unique) - 4) :
                     \A k \in 0..4 : unique[i + k] = unique[i] + k}
    IN  IF hits = {} THEN 0
        ELSE unique[(CHOOSE h \in hits : \A g \in hits : h <= g) + 4]

\* _straight_high(ranks): the first window of 5 consecutive values among the
\* sorted distinct ranks (the ace also counted as 1); None is modelled as 0.
_straight_high(ranks) ==
    LET set0   == {ranks[i] : i \in 1..Len(ranks)}
        unique == SortedAsc(IF 14 \in set0 THEN set0 \cup {1} ELSE set0)
        hits   == {i \in 1..(Len(unique) - 4) :
                     \A k \in 0..4 : unique[i + k] = unique[i] + k}
    IN  IF hits = {} THEN 0
        ELSE LET i == CHOOSE h \in hits : \A g \in hits : h <= g
                 last == unique[i + 4]
             IN  IF last # 1 THEN last ELSE 5

\* counts = sorted(Counter(ranks).items(), key=(count, rank), reverse=True):
\* a sequence of <<rank, count>>.
RECURSIVE SortCounts(_)
SortCounts(S) ==
    IF S = {} THEN <<>>
    ELSE LET m == CHOOSE x \in S : \A y \in S :
                     \/ y[2] < x[2]
                     \/ (y[2] = x[2] /\ y[1] <= x[1])
         IN  <<m>> \o SortCounts(S \ {m})

RankCounts(ranks) ==
    SortCounts({ <<r, Cardinality({i \in 1..Len(ranks) : ranks[i] = r})>> :
                    r \in {ranks[i] : i \in 1..Len(ranks)} })

RanksNotIn_Keep(ranks, used) == ranks

\* The ranks different from the ones in `used`, in the order of the hand.
RanksNotIn(ranks, used) == SelectSeq(ranks, LAMBDA r : r \notin used)

SeqMax(xs) == MaxOf({xs[i] : i \in 1..Len(xs)})

\* _hand_value(cards) for a 5-card tuple: (category, tiebreak...).
_hand_value(cards) ==
    LET ranks         == [i \in 1..Len(cards) |-> RANK_TO_VALUE[cards[i][1]]]
        suits         == {cards[i][2] : i \in 1..Len(cards)}
        counts        == RankCounts(ranks)
        ordered_ranks == SortedDesc(ranks)
        is_flush      == Cardinality(suits) = 1
        straight_high == _straight_high(ranks)
    IN  IF is_flush /\ straight_high # 0 THEN <<8, straight_high>>
        ELSE IF counts[1][2] = 4
            THEN <<7, counts[1][1], SeqMax(RanksNotIn(ranks, {counts[1][1]}))>>
        ELSE IF counts[1][2] = 3 /\ Len(counts) > 1 /\ counts[2][2] >= 2
            THEN <<6, counts[1][1], counts[2][1]>>
        ELSE IF is_flush THEN <<5>> \o ordered_ranks
        ELSE IF straight_high # 0 THEN <<4, straight_high>>
        ELSE IF counts[1][2] = 3
            THEN <<3, counts[1][1]>> \o SortedDesc(RanksNotIn(ranks, {counts[1][1]}))
        ELSE IF counts[1][2] = 2 /\ Len(counts) > 1 /\ counts[2][2] = 2
            THEN LET high_pair == counts[1][1]
                     low_pair  == counts[2][1]
                 IN  <<2>> \o SortedDesc(<<high_pair, low_pair>>)
                          \o <<SeqMax(RanksNotIn(ranks, {high_pair, low_pair}))>>
        ELSE IF counts[1][2] = 2
            THEN <<1, counts[1][1]>> \o SortedDesc(RanksNotIn(ranks, {counts[1][1]}))
        ELSE <<0>> \o ordered_ranks

\* itertools.combinations(range(n), 5): the increasing index tuples, in
\* lexicographic order.
RECURSIVE SortTuples(_)
SortTuples(S) ==
    IF S = {} THEN <<>>
    ELSE LET m == CHOOSE t \in S : \A u \in S : u = t \/ TupleLess(t, u)
         IN  <<m>> \o SortTuples(S \ {m})

Combinations5 ==
    [n \in 0..7 |->
        SortTuples({t \in [1..5 -> 1..n] : \A i \in 1..4 : t[i] < t[i + 1]})]

\* _best_hand_value(cards): the loop keeps the first value and replaces it by
\* every strictly greater one; `best or (0,)` when there is no combination.
RECURSIVE BestOver(_, _, _, _)
BestOver(cards, combos, k, best) ==
    IF k > Len(combos) THEN best
    ELSE LET value == _hand_value([i \in 1..5 |-> cards[combos[k][i]]])
         IN  BestOver(cards, combos, k + 1,
                      IF best = <<>> \/ TupleLess(best, value) THEN value ELSE best)

\* _best_hand_value looking at the first combination only.
_best_hand_value_FirstOnly(cards) ==
    IF Len(cards) < 5 THEN <<0>> ELSE _hand_value(SubSeq(cards, 1, 5))

_best_hand_value(cards) ==
    LET best == BestOver(cards, Combinations5[Len(cards)], 1, <<>>)
    IN  IF best = <<>> THEN <<0>> ELSE best

(***************************************************************************)
(* Request validation                                                      *)
(***************************************************************************)

\* str.upper() and str.lower() on the characters the requests are built from;
\* every other character (digits, punctuation) is left as it is.
LowerLetters == <<"a", "c", "d", "h", "j", "k", "q", "s", "t", "x">>
UpperLetters == <<"A", "C", "D", "H", "J", "K", "Q", "S", "T", "X">>

UpperChar(c) ==
    IF \E i \in 1..Len(LowerLetters) : LowerLetters[i] = c
    THEN UpperLetters[CHOOSE i \in 1..Len(LowerLetters) : LowerLetters[i] = c]
    ELSE c

LowerChar(c) ==
    IF \E i \in 1..Len(UpperLetters) : UpperLetters[i] = c
    THEN LowerLetters[CHOOSE i \in 1..Len(UpperLetters) : UpperLetters[i] = c]
    ELSE c

Upper(str) == [i \in 1..Len(str) |-> UpperChar(str[i])]
Lower(str) == [i \in 1..Len(str) |-> LowerChar(str[i])]

\* Python's `x in s` for two strings: x occurs in s as a substring (the
\* empty string occurs in every string).
StrIn(x, s) ==
    \E i \in 1..(Len(s) + 1) :
        /\ i + Len(x) - 1 <= Len(s)
        /\ \A k \in 1..Len(x) : s[i + k - 1] = x[k]

\* Python's `x in xs` for a list: some element equals x.
ListIn(x, xs) == \E i \in 1..Len(xs) : xs[i] = x

PLAYERS_MIN == 2
PLAYERS_MAX == 10
MAX_TIME_MS_MIN == 100
MAX_TIME_MS_MAX == 5000

\* SolverRequest.validate_ranks: every upper-cased rank must be `in ALL_RANKS`.
validate_ranks(value) == \A i \in 1..Len(value) : StrIn(Upper(value[i]), ALL_RANKS)

\* SolverRequest.validate_suits: every lower-cased suit must be `in ALL_SUITS`.
validate_suits(value) == \A i \in 1..Len(value) : StrIn(Lower(value[i]), ALL_SUITS)

\* players: Field(ge=2, le=10) and validate_players.
validate_players(value) == ~(value < PLAYERS_MIN \/ value > PLAYERS_MAX)

\* max_time_ms: Field(ge=100, le=5000) and validate_timeout.
validate_timeout(value) ==
    /\ value >= MAX_TIME_MS_MIN /\ value <= MAX_TIME_MS_MAX
    /\ ~(value < MAX_TIME_MS_MIN)

\* The request model accepts the body (otherwise the framework answers 422
\* and evaluate is never entered).
SolverRequestOk(body) ==
    /\ Len(body.ranks) = 2 /\ Len(body.suits) = 2
    /\ validate_ranks(body.ranks)
    /\ validate_suits(body.suits)
    /\ validate_players(body.players)
    /\ validate_timeout(body.max_time_ms)

\* The validated model: the validators return the upper-cased ranks and the
\* lower-cased suits.
SolverRequest(body) ==
    [ranks       |-> [i \in 1..Len(body.ranks) |-> Upper(body.ranks[i])],
     suits       |-> [i \in 1..Len(body.suits) |-> Lower(body.suits[i])],
     players     |-> body.players,
     max_time_ms |-> body.max_time_ms]

\* _build_hero_hand: the cards f"{rank.upper()}{suit.lower()}" of zip(ranks,
\* suits).
HeroCards(ranks, suits) == [i \in 1..2 |-> Upper(ranks[i]) \o Lower(suits[i])]

\* _build_hero_hand without its test for the same card twice.
_build_hero_hand_raises_NoDuplicateTest(ranks, suits) ==
    \E i \in 1..2 : ~ListIn(HeroCards(ranks, suits)[i], ALL_CARDS)

\* _build_hero_hand without its test against ALL_CARDS.
_build_hero_hand_raises_NoCardTest(ranks, suits) ==
    HeroCards(ranks, suits)[1] = HeroCards(ranks, suits)[2]

\* _build_hero_hand raises ValueError (lines 117-118, 120-121).
_build_hero_hand_raises(ranks, suits) ==
    LET cards == HeroCards(ranks, suits)
    IN  \/ \E i \in 1..2 : ~ListIn(cards[i], ALL_CARDS)
        \/ cards[1] = cards[2]

\* _iterations_for_budget(max_time_ms, players).
ITERATIONS_PER_MS == 60
ITERATIONS_MIN == 3000
ITERATIONS_MAX == 50000

Min2(a, b) == IF a <= b THEN a ELSE b
Max2(a, b) == IF a >= b THEN a ELSE b

\* _iterations_for_budget without its lower clamp.
_iterations_for_budget_NoFloor(max_time_ms, players) ==
    Min2(ITERATIONS_MAX, (max_time_ms * ITERATIONS_PER_MS) \div Max2(players, 2))

_iterations_for_budget(max_time_ms, players) ==
    LET base   == max_time_ms * ITERATIONS_PER_MS
        scaled == base \div Max2(players, 2)
    IN  Max2(ITERATIONS_MIN, Min2(ITERATIONS_MAX, scaled))

(***************************************************************************)
(* The random source                                                       *)
(*                                                                         *)
(* random.shuffle(deck) draws from the process-wide generator of the       *)
(* `random` module: a deterministic generator whose state is seeded once,  *)
(* when the process starts, and advanced by every shuffle of every call.   *)
(* The generator is modelled by a full-period linear congruential          *)
(* generator over RngPeriod states, and the permutation a state yields by  *)
(* the affine map i -> stride * i + offset on the positions of the deck.   *)
(***************************************************************************)

RECURSIVE GCD(_, _)
GCD(a, b) == IF b = 0 THEN a ELSE GCD(b, a % b)

RngPeriod == 50 * 20

NextRng(r) == (21 * r + 7) % RngPeriod

\* The deck read through the affine map, from position i on.
RECURSIVE Permuted(_, _, _, _)
Permuted(deck, stride, offset, i) ==
    IF i > Len(deck) THEN <<>>
    ELSE <<deck[((stride * (i - 1) + offset) % Len(deck)) + 1]>>
            \o Permuted(deck, stride, offset, i + 1)

\* random.shuffle(deck) in generator state r: a permutation of deck.
Shuffle(deck, r) ==
    LET n       == Len(deck)
        strides == SortedAsc({a \in 1..n : GCD(a, n) = 1})
    IN  Permuted(deck, strides[((r \div n) % Len(strides)) + 1], r % n, 1)

(***************************************************************************)
(* _simulate and evaluate                                                  *)
(***************************************************************************)

CHECK_EVERY == 100

\* Tie credit is a sum of fractions 1/(tied + 1) with tied + 1 in 2..10: it is
\* kept as an integer number of units of 1/TieUnits.
TieUnits == 2 * 2 * 2 * 3 * 3 * 5 * 7

\* deck[a:b] of Python: the elements at 0-based positions a..b-1 that exist.
Slice(xs, a, b) == SubSeq(xs, a + 1, Min2(b, Len(xs)))

DeckWithout_Nothing(hero) == ALL_CARDS

\* deck_cards = [card for card in ALL_CARDS if card not in hero_cards]
DeckWithout(hero) == SelectSeq(ALL_CARDS, LAMBDA card : ~ListIn(card, hero))

\* max(opponent_values) under the tuple order.
MaxTuple(vs) ==
    vs[CHOOSE i \in 1..Len(vs) : \A j \in 1..Len(vs) : ~TupleLess(vs[i], vs[j])]

\* opponent_values.count(hero_value)
CountEq(vs, v) == Cardinality({i \in 1..Len(vs) : vs[i] = v})

\* The values of one trial on the shuffled deck: the board, hero's value and
\* the opponents' values (lines 148-157).
TrialBoard(shuffled) == Slice(shuffled, 0, 5)

OpponentCards(shuffled, k) == Slice(shuffled, 5 + 2 * (k - 1), 5 + 2 * (k - 1) + 2)

TrialHeroValue(hero, shuffled) == _best_hand_value(hero \o TrialBoard(shuffled))

RECURSIVE OpponentValuesFrom(_, _, _)
OpponentValuesFrom(n, shuffled, k) ==
    IF k > n - 1 THEN <<>>
    ELSE <<_best_hand_value(OpponentCards(shuffled, k) \o TrialBoard(shuffled))>>
            \o OpponentValuesFrom(n, shuffled, k + 1)

TrialOpponentValues(n, shuffled) == OpponentValuesFrom(n, shuffled, 1)

\* The outcome of a trial (lines 159-165): what it adds to wins and to ties
\* (in units of 1/TieUnits).
WinGain(hv, ovs) == IF TupleLess(MaxTuple(ovs), hv) THEN 1 ELSE 0

TieCredit_PerOpponent(tied) == TieUnits \div tied

TieCredit(tied) == TieUnits \div (tied + 1)

TieGain_OnWin(hv, ovs) ==
    IF ~TupleLess(hv, MaxTuple(ovs))
    THEN TieCredit(CountEq(ovs, hv))
    ELSE 0

TieGain(hv, ovs) ==
    IF ~TupleLess(MaxTuple(ovs), hv) /\ hv = MaxTuple(ovs)
    THEN TieCredit(CountEq(ovs, hv))
    ELSE 0

\* The divisor without max(completed, 1).
TotalTrials_NoFloor(n) == n

\* total = float(max(completed, 1))
TotalTrials(n) == Max2(n, 1)

\* The clock read after every trial.
Checkpoint_EveryTrial(n, elapsed, budget) == elapsed >= budget

\* The loop breaks only once the budget is exceeded.
Checkpoint_Strict(n, elapsed, budget) == n % CHECK_EVERY = 0 /\ elapsed > budget

\* The checkpoint of lines 168-171: the loop breaks.
Checkpoint(n, elapsed, budget) == n % CHECK_EVERY = 0 /\ elapsed >= budget

\* round(x, 4) of the fraction num / den, in units of 1/10000 (half to even).
\* (10000 * num is formed in two steps of 100, within 32-bit integers.)
Round4(num, den) ==
    LET q1 == (100 * num) \div den
        r1 == (100 * num) % den
        q  == 100 * q1 + ((100 * r1) \div den)
        r  == (100 * r1) % den
    IN  IF 2 * r > den \/ (2 * r = den /\ q % 2 = 1) THEN q + 1 ELSE q

\* The loss without the tie credit taken off.
LossNum_NoTie(win, tie, den) == Max2(0, den - win)

\* loss_prob = max(0.0, 1.0 - win_prob - tie_prob), as a numerator over den.
LossNum(win, tie, den) == Max2(0, den - win - tie)

\* _recommendation with thresholds that must be exceeded.
_recommendation_Strict(win, den) ==
    IF 10 * win > 7 * den THEN "raise"
    ELSE IF 10 * win > 5 * den THEN "call"
    ELSE "fold"

\* _recommendation(win_prob) for win_prob = win / den.
_recommendation(win, den) ==
    IF 10 * win >= 7 * den THEN "raise"
    ELSE IF 10 * win >= 5 * den THEN "call"
    ELSE "fold"

\* The response of lines 94-110 for the tally (w, t, n) of _simulate: the
\* probabilities are exact fractions over den, the *_prob fields their
\* rounding to 4 places in units of 1/10000.  Status 500 stands for an
\* exception that leaves evaluate (a division by zero, math.sqrt of a negative
\* variance).
Summarize(w, t, n, np) ==
    LET total == TotalTrials(n)
        den   == TieUnits * total
        win   == TieUnits * w
        loss  == LossNum(win, t, den)
    IN  IF total = 0 \/ w * (total - w) < 0
        THEN [status |-> 500]
        ELSE [status         |-> 200,
              den            |-> den,
              win            |-> win,
              tie            |-> t,
              loss           |-> loss,
              win_prob       |-> Round4(win, den),
              tie_prob       |-> Round4(t, den),
              loss_prob      |-> Round4(loss, den),
              ev             |-> win * np - loss,
              recommendation |-> _recommendation(win, den),
              iterations     |-> n]

(***************************************************************************)
(* The /preflop API (src/src): query parsing, the Chen fallback, the       *)
(* solver client                                                           *)
(***************************************************************************)

\* A query parameter that is absent (Python's None); a present one is the
\* sequence of its characters.
None == <<"None">>

\* str.strip(): leading and trailing blanks removed.
RECURSIVE StripLeft(_)
StripLeft(str) ==
    IF str # <<>> /\ Head(str) = " " THEN StripLeft(Tail(str)) ELSE str

RECURSIVE StripRight(_)
StripRight(str) ==
    IF str # <<>> /\ str[Len(str)] = " "
    THEN StripRight(SubSeq(str, 1, Len(str) - 1)) ELSE str

Strip(str) == StripRight(StripLeft(str))

\* str.split(","): the pieces between the commas (at least one piece).
RECURSIVE SplitFrom(_, _)
SplitFrom(str, piece) ==
    IF str = <<>> THEN <<piece>>
    ELSE IF Head(str) = "," THEN <<piece>> \o SplitFrom(Tail(str), <<>>)
    ELSE SplitFrom(Tail(str), Append(piece, Head(str)))

Split(str) == SplitFrom(str, <<>>)

\* int(raw): blanks around, an optional sign, decimal digits; ok is FALSE for
\* a ValueError.
DigitChars == <<"0", "1", "2", "3", "4", "5", "6", "7", "8", "9">>
IsDigit(c) == \E d \in 1..Len(DigitChars) : DigitChars[d] = c
DigitValue(c) == (CHOOSE d \in 1..Len(DigitChars) : DigitChars[d] = c) - 1

RECURSIVE DigitsValue(_, _)
DigitsValue(str, acc) ==
    IF str = <<>> THEN acc ELSE DigitsValue(Tail(str), 10 * acc + DigitValue(Head(str)))

ParseInt(raw) ==
    LET t      == Strip(raw)
        signed == t # <<>> /\ Head(t) \in {"-", "+"}
        digits == IF signed THEN Tail(t) ELSE t
    IN  IF digits = <<>> \/ \E i \in 1..Len(digits) : ~IsDigit(digits[i])
        THEN [ok |-> FALSE, value |-> 0]
        ELSE [ok |-> TRUE,
              value |-> IF signed /\ Head(t) = "-" THEN 0 - DigitsValue(digits, 0)
                        ELSE DigitsValue(digits, 0)]

\* heuristics.RANK_ORDER, RANK_BASE, VALID_SUITS.
RANK_ORDER == [r \in {"2", "3", "4", "5", "6", "7", "8", "9", "T", "J", "Q", "K", "A"} |->
                 RANK_TO_VALUE[r]]
RANK_BASE ==
    [r \in DOMAIN RANK_ORDER |->
        CASE r = "A" -> 10 [] r = "K" -> 8 [] r = "Q" -> 7 [] r = "J" -> 6
          [] r \in {"T", "9"} -> 5 [] r \in {"8", "7"} -> 4 [] r \in {"6", "5"} -> 3
          [] r \in {"4", "3"} -> 2 [] OTHER -> 1]
VALID_SUITS == {"s", "h", "d", "c"}

\* A validation outcome: the value, or the error code of PreflopValidationError.
Valid(v) == [ok |-> TRUE, value |-> v, error |-> ""]
Invalid(code) == [ok |-> FALSE, value |-> <<>>, error |-> code]

\* heuristics.normalize_card(token): the Card, or invalid_cards.
normalize_card(token) ==
    IF Len(token) # 2 THEN Invalid("invalid_cards")
    ELSE IF UpperChar(token[1]) \notin DOMAIN RANK_ORDER THEN Invalid("invalid_cards")
    ELSE IF LowerChar(token[2]) \notin VALID_SUITS THEN Invalid("invalid_cards")
    ELSE Valid([rank |-> UpperChar(token[1]), suit |-> LowerChar(token[2])])

\* heuristics.parse_cards(raw_cards).
parse_cards(raw_cards) ==
    LET pieces == Split(raw_cards)
        parts  == SelectSeq([i \in 1..Len(pieces) |-> Strip(pieces[i])],
                            LAMBDA part : part # <<>>)
    IN  IF Len(parts) # 2 THEN Invalid("invalid_cards")
        ELSE IF ~normalize_card(parts[1]).ok \/ ~normalize_card(parts[2]).ok
             THEN Invalid("invalid_cards")
        ELSE IF normalize_card(parts[1]).value = normalize_card(parts[2]).value
             THEN Invalid("invalid_cards")
        ELSE Valid(<<normalize_card(parts[1]).value, normalize_card(parts[2]).value>>)

\* app._parse_cards(raw).
_parse_cards(raw) ==
    IF raw = None THEN Invalid("missing_cards") ELSE parse_cards(raw)

\* app._parse_players(raw).
API_PLAYERS_DEFAULT == 2

_parse_players_NoRange(raw) ==
    IF raw = None \/ raw = <<>> THEN Valid(API_PLAYERS_DEFAULT)
    ELSE IF ~ParseInt(raw).ok THEN Invalid("invalid_players")
    ELSE Valid(ParseInt(raw).value)

_parse_players(raw) ==
    IF raw = None \/ raw = <<>> THEN Valid(API_PLAYERS_DEFAULT)
    ELSE IF ~ParseInt(raw).ok THEN Invalid("invalid_players")
    ELSE IF ParseInt(raw).value < 2 \/ ParseInt(raw).value > 10
         THEN Invalid("invalid_players")
    ELSE Valid(ParseInt(raw).value)

\* app._parse_mode(raw).
ModeSolver == <<"s", "o", "l", "v", "e", "r">>
ModeHeuristic == <<"h", "e", "u", "r", "i", "s", "t", "i", "c">>

_parse_mode(raw) ==
    IF raw = None \/ raw = <<>> THEN Valid(ModeSolver)
    ELSE IF Lower(Strip(raw)) \notin {ModeSolver, ModeHeuristic} THEN Invalid("invalid_query")
    ELSE Valid(Lower(Strip(raw)))

\* app._parse_timeout(raw), with settings.default_timeout_ms.
API_TIMEOUT_MIN == 100
API_TIMEOUT_MAX == 2000

_parse_timeout(raw, default_ms) ==
    IF raw = None \/ raw = <<>> THEN Valid(default_ms)
    ELSE IF ~ParseInt(raw).ok THEN Invalid("invalid_query")
    ELSE IF ParseInt(raw).value < API_TIMEOUT_MIN \/ ParseInt(raw).value > API_TIMEOUT_MAX
         THEN Invalid("invalid_query")
    ELSE Valid(ParseInt(raw).value)

\* heuristics.chen_score(cards).
chen_score(hand) ==
    LET first  == hand[1]
        second == hand[2]
        gap    == IF RANK_ORDER[first.rank] >= RANK_ORDER[second.rank]
                  THEN RANK_ORDER[first.rank] - RANK_ORDER[second.rank]
                  ELSE RANK_ORDER[second.rank] - RANK_ORDER[first.rank]
        high   == Max2(RANK_ORDER[first.rank], RANK_ORDER[second.rank])
        high_rank == IF RANK_ORDER[first.rank] >= RANK_ORDER[second.rank]
                     THEN first.rank ELSE second.rank
        suited == IF first.suit = second.suit THEN 2 ELSE 0
        gapped == IF gap = 1 THEN 1 ELSE IF gap = 2 THEN 2 ELSE IF gap >= 3 THEN 4 ELSE 0
        bonus  == IF gap = 1 /\ high <= 6 THEN 1 ELSE 0
    IN  IF first.rank = second.rank THEN Max2(5, RANK_BASE[first.rank] * 2)
        ELSE Max2(RANK_BASE[high_rank] + suited - gapped + bonus, 0)

\* heuristics.chen_percentile(score, players), in hundredths.
chen_percentile(score, np) ==
    LET base == IF score >= 20 THEN 99 ELSE IF score >= 16 THEN 95
                ELSE IF score >= 13 THEN 90 ELSE IF score >= 10 THEN 80
                ELSE IF score >= 8 THEN 70 ELSE IF score >= 6 THEN 55
                ELSE IF score >= 4 THEN 40 ELSE 25
    IN  Max2(base - 4 * Max2(np - 2, 0), 5)

\* heuristics._recommendation_from_percentile(percentile).
_recommendation_from_percentile(percentile) ==
    IF percentile >= 70 THEN "raise" ELSE IF percentile >= 40 THEN "call" ELSE "fold"

\* heuristics.format_cards(cards).
format_cards(hand) ==
    <<hand[1].rank, hand[1].suit, ",", hand[2].rank, hand[2].suit>>

\* app._error_response(status_code, error_code).
_error_response(status_code, error_code) ==
    [status |-> status_code, error |-> error_code]

\* app._build_heuristic_response(cards, players, method, fallback_reason): the
\* probabilities in hundredths.
_build_heuristic_response(hand, np, method, fallback_reason) ==
    [status          |-> 200,
     cards           |-> format_cards(hand),
     players         |-> np,
     method          |-> method,
     winProbability  |-> chen_percentile(chen_score(hand), np),
     lossProbability |-> Max2(0, 100 - chen_percentile(chen_score(hand), np)),
     recommendation  |-> _recommendation_from_percentile(
                             chen_percentile(chen_score(hand), np)),
     solverLatencyMs |-> 0,
     iterations      |-> None,
     fallback        |-> fallback_reason,
     score           |-> chen_score(hand)]

\* app._build_solver_response(cards, players, solver_result, latency_ms).
_build_solver_response(hand, np, solver_result, latency_ms) ==
    [status          |-> 200,
     cards           |-> format_cards(hand),
     players         |-> np,
     method          |-> "solver:v1",
     winProbability  |-> solver_result.win_prob,
     recommendation  |-> solver_result.recommendation,
     solverLatencyMs |-> latency_ms,
     iterations      |-> solver_result.iterations,
     fallback        |-> None,
     score           |-> None]

\* How the HTTP call of SolverClient.evaluate ends: an exception of httpx, or a
\* response with a status code; a 200 carries a JSON body or not.
HttpOutcomes ==
    { [kind |-> "TimeoutException", code |-> 0],
      [kind |-> "HTTPError", code |-> 0],
      [kind |-> "invalid_json", code |-> 200] }
    \cup { [kind |-> "response", code |-> c] : c \in {200, 400, 408, 422, 500, 502, 503} }

SolverClientEvaluate_No408(outcome) ==
    IF outcome.kind = "TimeoutException" THEN "SolverTimeoutError"
    ELSE IF outcome.kind = "HTTPError" THEN "SolverServiceError"
    ELSE IF outcome.code >= 500 /\ outcome.code < 600 THEN "SolverServiceError"
    ELSE IF outcome.code # 200 THEN "SolverServiceError"
    ELSE IF outcome.kind = "invalid_json" THEN "Exception"
    ELSE "return"

\* SolverClient.evaluate after the post: what it raises, or "return".
SolverClientEvaluate(outcome) ==
    IF outcome.kind = "TimeoutException" THEN "SolverTimeoutError"
    ELSE IF outcome.kind = "HTTPError" THEN "SolverServiceError"
    ELSE IF outcome.code = 408 THEN "SolverTimeoutError"
    ELSE IF outcome.code >= 500 /\ outcome.code < 600 THEN "SolverServiceError"
    ELSE IF outcome.code # 200 THEN "SolverServiceError"
    ELSE IF outcome.kind = "invalid_json" THEN "Exception"
    ELSE "return"

(***************************************************************************)
(* The requests offered to the service                                     *)
(***************************************************************************)

Body(r1, r2, s1, s2, p, t) ==
    [ranks |-> <<r1, r2>>, suits |-> <<s1, s2>>, players |-> p, max_time_ms |-> t]

\* Hero hands <<rank, rank, suit, suit>> that are two distinct cards.
GoodHeroes ==
    { << <<"A">>, <<"A">>, <<"s">>, <<"d">> >>,
      << <<"7">>, <<"2">>, <<"h">>, <<"c">> >>,
      << <<"a">>, <<"k">>, <<"S">>, <<"s">> >> }

\* Hero hands that are not: the same card twice, a symbol outside the
\* alphabet, an empty or a multi-character symbol.
BadHeroes ==
    { << <<"A">>, <<"A">>, <<"s">>, <<"s">> >>,
      << <<"a">>, <<"A">>, <<"S">>, <<"s">> >>,
      << <<"1">>, <<"A">>, <<"s">>, <<"d">> >>,
      << <<"A">>, <<"x">>, <<"s">>, <<"d">> >>,
      << <<>>, <<"A">>, <<"s">>, <<"d">> >>,
      << <<"2", "3">>, <<"A">>, <<"s">>, <<"d">> >>,
      << <<"T", "J">>, <<"t", "j">>, <<"s">>, <<"d">> >>,
      << <<"1", "0">>, <<"A">>, <<"s">>, <<"d">> >>,
      << <<"A">>, <<"K">>, <<"x">>, <<"d">> >>,
      << <<"A">>, <<"K">>, <<"s">>, <<>> >>,
      << <<"A">>, <<"K">>, <<"c", "d">>, <<"h", "s">> >>,
      << <<>>, <<"K">>, <<"A", "s">>, <<"d">> >>,
      << <<"A", "s">>, <<"K">>, <<>>, <<"d">> >>,
      << <<"A">>, <<"K">>, <<"s">>, <<"a">> >> }

GoodPlayers == {PLAYERS_MIN, PLAYERS_MIN + 1, PLAYERS_MAX}
BadPlayers  == {0, PLAYERS_MIN - 1, PLAYERS_MAX + 1}
GoodTimes   == {MAX_TIME_MS_MIN, MAX_TIME_MS_MAX}
BadTimes    == {MAX_TIME_MS_MIN - 1, MAX_TIME_MS_MAX + 1}

BodyOf(h, p, t) == Body(h[1], h[2], h[3], h[4], p, t)

\* Requests with at least one invalid field.
BadBodies ==
    {BodyOf(h, p, t) : h \in BadHeroes, p \in GoodPlayers \cup BadPlayers,
                       t \in GoodTimes \cup BadTimes}
    \cup {BodyOf(h, p, t) : h \in GoodHeroes, p \in BadPlayers, t \in GoodTimes}
    \cup {BodyOf(h, p, t) : h \in GoodHeroes, p \in GoodPlayers, t \in BadTimes}

\* A call: the request body, who derives the trial cap ("evaluate": the
\* policy _iterations_for_budget; "simulate": a caller of _simulate that
\* passes `cap`), and the clock of the call, the milliseconds one trial takes.
Call(b, entry, cap, ms) == [body |-> b, entry |-> entry, cap |-> cap, trial_ms |-> ms]

\* The largest cap a caller of _simulate passes.
MaxSimCap == 150

SimCaps == {0, 1, CHECK_EVERY, MaxSimCap}

AcesBody  == BodyOf(<< <<"A">>, <<"A">>, <<"s">>, <<"d">> >>, 2, MAX_TIME_MS_MIN)
LowBody   == BodyOf(<< <<"7">>, <<"2">>, <<"h">>, <<"c">> >>, PLAYERS_MAX, MAX_TIME_MS_MAX)
MixedBody == BodyOf(<< <<"a">>, <<"k">>, <<"S">>, <<"s">> >>, 3, MAX_TIME_MS_MIN)

SevenDeuceBody ==
    BodyOf(<< <<"7">>, <<"2">>, <<"h">>, <<"c">> >>, 2, MAX_TIME_MS_MAX)

\* Calls of evaluate whose clock reaches the budget within the first two
\* checkpoints, and calls of _simulate with small caps.
ShortCalls ==
    { Call(AcesBody, "evaluate", 0, MAX_TIME_MS_MIN),
      Call(MixedBody, "evaluate", 0, 3),
      Call(SevenDeuceBody, "evaluate", 0, 37) }
    \cup { Call(AcesBody, "simulate", c, ms) : c \in SimCaps, ms \in {0, 1} }

\* Calls with many hands to evaluate: a table of ten, and a call that runs to
\* the derived cap because its clock never reaches the budget.
LongCalls ==
    { Call(LowBody, "evaluate", 0, 100),
      Call(AcesBody, "evaluate", 0, 0) }

RejectedCalls == { Call(b, "evaluate", 0, 0) : b \in BadBodies }

\* The seeds of the generator.
NumSeeds == 2
Seeds == 0..(NumSeeds - 1)

\* What a session of one call is offered.  The long calls are explored from
\* the first seed only (the run to the derived cap visits every generator
\* state).
SingleLoad(seed) ==
    RejectedCalls \cup ShortCalls \cup (IF seed = 0 THEN LongCalls ELSE {})

\* The number of calls of a session of several calls, and what it is offered:
\* calls of _simulate with small caps, on a clock that never reaches the
\* budget, and a request that is refused.
MaxCalls == 2

SessionCaps == {1, 2, 3}

SessionLoad ==
    { Call(b, "simulate", c, 0) : b \in {AcesBody, MixedBody}, c \in SessionCaps }
    \cup { Call(BodyOf(<< <<"A">>, <<"A">>, <<"s">>, <<"s">> >>, 2, MAX_TIME_MS_MIN),
                "evaluate", 0, 0) }

(***************************************************************************)
(* State                                                                   *)
(***************************************************************************)

VARIABLES
    rng,              \* state of the process-wide generator of `random`
    seed0,            \* the state the generator was seeded with
    maxCalls,         \* the number of calls the session serves
    served,           \* the number of calls received so far
    history,          \* the finished calls: their inputs and their tally
    pc,               \* "idle" | "loop" (in the trial loop) | "exit" (left it)
    call,             \* the call being served, or the last one served
    hero_cards,       \* evaluate: hero_cards
    players,          \* _simulate: players
    iterations,       \* _simulate: iterations, the trial cap
    max_time_ms,      \* _simulate: max_time_ms
    deck_cards,       \* _simulate: deck_cards
    deck,             \* _simulate: deck, as shuffled by the last trial
    hero_value,       \* _simulate: hero_value of the last trial
    opponent_values,  \* _simulate: opponent_values of the last trial
    wins,             \* _simulate: wins
    ties,             \* _simulate: ties, in units of 1/TieUnits
    completed,        \* _simulate: completed
    elapsed_ms,       \* time.perf_counter() - start, in ms
    since_over,       \* trials completed since elapsed_ms reached max_time_ms
    solo_rng,         \* the generator state the call would be in, served alone
    solo_deck,        \* the deck the last trial would have dealt, served alone
    response,         \* the response of the last call
    hand_a, hand_b,   \* hand evaluator: two 5-card hands
    value_a, value_b, \* hand evaluator: their values, once evaluated
    bh_cards,         \* _best_hand_value: cards, the 5 to 7 cards given
    bh_best,          \* _best_hand_value: the value returned
    chen_fallback_enabled,  \* /preflop: settings.chen_fallback_enabled
    default_timeout_ms,     \* /preflop: settings.default_timeout_ms
    api_pc,           \* /preflop: "idle" | "await" (the solver call) | "done"
    query,            \* /preflop: the query parameters of the request
    parsed_cards,     \* /preflop: parsed_cards
    player_count,     \* /preflop: player_count
    mode_value,       \* /preflop: mode_value
    timeout_value,    \* /preflop: timeout_value
    solver_calls,     \* /preflop: calls of solver_client.evaluate for the request
    solver_outcome,   \* /preflop: how the HTTP call to the solver ended
    api_response      \* /preflop: the response returned

vars ==
    <<rng, seed0, maxCalls, served, history, pc, call, hero_cards, players,
      iterations, max_time_ms, deck_cards, deck, hero_value, opponent_values,
      wins, ties, completed, elapsed_ms, since_over, solo_rng, solo_deck,
      response, hand_a, hand_b, value_a, value_b, bh_cards, bh_best,
      chen_fallback_enabled, default_timeout_ms, api_pc, query, parsed_cards,
      player_count, mode_value, timeout_value, solver_calls, solver_outcome,
      api_response>>

handVars == <<hand_a, hand_b, value_a, value_b, bh_cards, bh_best>>

localVars ==
    <<hero_cards, players, iterations, max_time_ms, deck_cards, deck,
      hero_value, opponent_values, wins, ties, completed, elapsed_ms,
      since_over, solo_rng, solo_deck>>

NoCall == [body |-> <<>>, entry |-> "none", cap |-> 0, trial_ms |-> 0]
NoResponse == [status |-> 0]

\* No call in progress: the locals of evaluate and _simulate do not exist.
NoLocals ==
    /\ hero_cards = <<>> /\ players = 0 /\ iterations = 0 /\ max_time_ms = 0
    /\ deck_cards = <<>> /\ deck = <<>> /\ hero_value = <<>>
    /\ opponent_values = <<>> /\ wins = 0 /\ ties = 0 /\ completed = 0
    /\ elapsed_ms = 0 /\ since_over = 0 /\ solo_rng = 0 /\ solo_deck = <<>>

apiVars ==
    <<chen_fallback_enabled, default_timeout_ms, api_pc, query, parsed_cards,
      player_count, mode_value, timeout_value, solver_calls, solver_outcome,
      api_response>>

\* settings.default_timeout_ms when DEFAULT_TIMEOUT_MS is not set.
DEFAULT_TIMEOUT_MS == 800

NoQuery == [cards |-> None, players |-> None, mode |-> None, timeoutMs |-> None]
NoOutcome == [kind |-> "none", code |-> 0]

\* No request to /preflop has been received.
ApiIdle ==
    /\ api_pc = "idle" /\ query = NoQuery
    /\ parsed_cards = None /\ player_count = None
    /\ mode_value = None /\ timeout_value = None
    /\ solver_calls = 0 /\ solver_outcome = NoOutcome
    /\ api_response = NoResponse

\* The /preflop service is not part of the run.
ApiOff ==
    /\ chen_fallback_enabled = TRUE /\ default_timeout_ms = DEFAULT_TIMEOUT_MS
    /\ ApiIdle

\* The locals are discarded.
DropLocals ==
    /\ hero_cards' = <<>> /\ players' = 0 /\ iterations' = 0 /\ max_time_ms' = 0
    /\ deck_cards' = <<>> /\ deck' = <<>> /\ hero_value' = <<>>
    /\ opponent_values' = <<>> /\ wins' = 0 /\ ties' = 0 /\ completed' = 0
    /\ elapsed_ms' = 0 /\ since_over' = 0 /\ solo_rng' = 0 /\ solo_deck' = <<>>

InitWith(n) ==
    /\ rng \in Seeds /\ seed0 = rng
    /\ maxCalls = n /\ served = 0 /\ history = <<>>
    /\ pc = "idle" /\ call = NoCall /\ response = NoResponse
    /\ NoLocals
    /\ hand_a = <<>> /\ hand_b = <<>> /\ value_a = <<>> /\ value_b = <<>>
    /\ bh_cards = <<>> /\ bh_best = <<>>
    /\ ApiOff

\* A session of one call.
Init == InitWith(1)

\* What the session is offered.
Offered == IF maxCalls = 1 THEN SingleLoad(seed0) ELSE SessionLoad

(***************************************************************************)
(* Actions                                                                 *)
(***************************************************************************)

\* The request is refused before _simulate is entered: 422 by the request
\* model, 400 by evaluate when _build_hero_hand raises (lines 78-81).
RejectStatus(b) ==
    IF ~SolverRequestOk(b) THEN 422
    ELSE IF _build_hero_hand_raises(SolverRequest(b).ranks, SolverRequest(b).suits) THEN 400
    ELSE 0

Reject ==
    /\ pc = "idle" /\ served < maxCalls
    /\ \E c \in Offered :
        /\ RejectStatus(c.body) # 0
        /\ call' = c
        /\ response' = [status |-> RejectStatus(c.body)]
    /\ served' = served + 1
    /\ DropLocals
    /\ pc' = "idle"
    /\ UNCHANGED <<rng, seed0, maxCalls, history>>
    /\ UNCHANGED handVars
    /\ UNCHANGED apiVars

\* evaluate up to the first trial: the hero hand, the trial cap, and the
\* locals of _simulate before its loop (lines 79-83, 137-142).
Enter ==
    /\ pc = "idle" /\ served < maxCalls
    /\ \E c \in Offered :
        LET req == SolverRequest(c.body)
        IN  /\ RejectStatus(c.body) = 0
            /\ call' = c
            /\ hero_cards' = HeroCards(req.ranks, req.suits)
            /\ players' = req.players
            /\ max_time_ms' = req.max_time_ms
            /\ iterations' = IF c.entry = "evaluate"
                             THEN _iterations_for_budget(req.max_time_ms, req.players)
                             ELSE c.cap
            /\ deck_cards' = DeckWithout(HeroCards(req.ranks, req.suits))
    /\ served' = served + 1
    /\ deck' = <<>> /\ hero_value' = <<>> /\ opponent_values' = <<>>
    /\ wins' = 0 /\ ties' = 0 /\ completed' = 0
    /\ elapsed_ms' = 0 /\ since_over' = 0
    /\ solo_rng' = seed0 /\ solo_deck' = <<>>
    /\ response' = NoResponse
    /\ pc' = IF iterations' > 0 THEN "loop" ELSE "exit"
    /\ UNCHANGED <<rng, seed0, maxCalls, history>>
    /\ UNCHANGED handVars
    /\ UNCHANGED apiVars

\* One pass of the loop body (lines 144-171).
Trial ==
    /\ pc = "loop" /\ completed < iterations
    /\ deck' = Shuffle(deck_cards, rng)
    /\ rng' = NextRng(rng)
    /\ solo_rng' = NextRng(solo_rng)
    /\ solo_deck' = IF solo_rng = rng THEN deck' ELSE Shuffle(deck_cards, solo_rng)
    /\ hero_value' = TrialHeroValue(hero_cards, deck')
    /\ opponent_values' = TrialOpponentValues(players, deck')
    /\ elapsed_ms' = elapsed_ms + call.trial_ms
    /\ since_over' = IF elapsed_ms' >= max_time_ms THEN since_over + 1 ELSE 0
    /\ IF Len(opponent_values') = 0
       THEN \* hero_value > -1: a tuple compared with an int raises
            /\ response' = [status |-> 500]
            /\ pc' = "idle"
            /\ UNCHANGED <<wins, ties, completed>>
       ELSE /\ wins' = wins + WinGain(hero_value', opponent_values')
            /\ ties' = ties + TieGain(hero_value', opponent_values')
            /\ completed' = completed + 1
            /\ pc' = IF \/ Checkpoint(completed', elapsed_ms', max_time_ms)
                        \/ completed' = iterations
                     THEN "exit" ELSE "loop"
            /\ UNCHANGED response
    /\ UNCHANGED <<seed0, maxCalls, served, history, call, hero_cards, players,
                   iterations, max_time_ms, deck_cards>>
    /\ UNCHANGED handVars
    /\ UNCHANGED apiVars

\* The tally of a finished call, as the history keeps it.
Tally ==
    [call |-> call, wins |-> wins, ties |-> ties, completed |-> completed]

\* _simulate returns and evaluate builds its response (lines 173-182, 94-110).
Return ==
    /\ pc = "exit"
    /\ response' = Summarize(wins, ties, completed, players)
    /\ history' = Append(history, Tally)
    /\ pc' = "idle"
    /\ UNCHANGED <<rng, seed0, maxCalls, served, call>>
    /\ UNCHANGED localVars
    /\ UNCHANGED handVars
    /\ UNCHANGED apiVars

Next == Reject \/ Enter \/ Trial \/ Return

Spec == Init /\ [][Next]_vars

\* The loop test and the counter of a pass of the loop (lines 144, 166): the
\* steps of Trial that complete a trial, told by the counter alone.
LoopIteration ==
    /\ pc = "loop" /\ completed < iterations
    /\ completed' = completed + 1

\* The loop of _simulate is synchronous and never waits: a call in its loop
\* goes on to the next trial.
FairSpec == Spec /\ WF_completed(LoopIteration)

\* A session of several calls, one after the other: evaluate is a coroutine
\* that never awaits, so the event loop runs each call to its end.
SessionInit == InitWith(MaxCalls)

SessionSpec == SessionInit /\ [][Next]_vars

(***************************************************************************)
(* The aggregation on its own                                              *)
(***************************************************************************)

\* A number of trials at which a win count rounds up to the raise threshold.
BoundaryTrials == 2003

\* The numbers of trials a call of _simulate has completed when it returns.
ResultTrials == {0, 1, 3, 10, CHECK_EVERY, BoundaryTrials, ITERATIONS_MIN}

\* The win counts looked at for n trials: all of them for a few trials, else
\* none, all, and the ones around the two thresholds.
ResultWins(n) ==
    IF n <= 10 THEN 0..n
    ELSE {w \in 0..n : \/ w \in {0, n}
                       \/ (10 * w - 7 * n) \in -30..30
                       \/ (2 * w - n) \in -6..6}

\* The tie credits looked at, in units of 1/TieUnits: no tie, one tie with one
\* opponent, two ties with two opponents each.
ResultTies == {0, TieUnits \div 2, 2 * (TieUnits \div 3)}

\* _simulate has left its loop with some tally: the hero's hand has won, tied
\* or lost each of the trials (a tied trial adds at most 1/2).  The decks of
\* the trials are left out; Return does not read them.
ResultInit ==
    /\ rng = 0 /\ seed0 = 0
    /\ maxCalls = 1 /\ served = 1 /\ history = <<>>
    /\ pc = "exit" /\ response = NoResponse
    /\ completed \in ResultTrials
    /\ call = Call(AcesBody, "simulate", completed, 0)
    /\ hero_cards = HeroCards(AcesBody.ranks, AcesBody.suits)
    /\ players = AcesBody.players
    /\ iterations = completed
    /\ max_time_ms = AcesBody.max_time_ms
    /\ deck_cards = DeckWithout(hero_cards)
    /\ deck = <<>> /\ hero_value = <<>> /\ opponent_values = <<>>
    /\ wins \in ResultWins(completed)
    /\ ties \in {t \in ResultTies : TieUnits * wins + 2 * t <= TieUnits * completed}
    /\ elapsed_ms = 0 /\ since_over = 0
    /\ solo_rng = 0 /\ solo_deck = <<>>
    /\ hand_a = <<>> /\ hand_b = <<>> /\ value_a = <<>> /\ value_b = <<>>
    /\ bh_cards = <<>> /\ bh_best = <<>>
    /\ ApiOff

ResultNext == Return

ResultSpec == ResultInit /\ [][ResultNext]_vars

(***************************************************************************)
(* The hand evaluator on its own                                           *)
(***************************************************************************)

\* 5-card hands: the cards of ALL_CARDS at the positions offset + pattern.
HandPatterns ==
    { <<0, 1, 2, 3, 4>>,      \* four of a kind, full house
      <<0, 4, 8, 12, 16>>,    \* one suit, consecutive ranks
      <<0, 5, 8, 13, 16>>,    \* consecutive ranks, two suits
      <<0, 4, 8, 12, 20>>,    \* one suit
      <<0, 1, 2, 4, 8>>,      \* three of a kind
      <<0, 1, 4, 5, 8>>,      \* two pair
      <<0, 1, 4, 8, 13>>,     \* one pair
      <<0, 5, 10, 19, 28>> }  \* high card

HandOffsets == {0, 1, 2, 4, 7, 20, 22, 32, 36, 40, 44, 47, 48}

HandAt(offset, pattern) ==
    << ALL_CARDS[((offset + pattern[1]) % Len(ALL_CARDS)) + 1],
       ALL_CARDS[((offset + pattern[2]) % Len(ALL_CARDS)) + 1],
       ALL_CARDS[((offset + pattern[3]) % Len(ALL_CARDS)) + 1],
       ALL_CARDS[((offset + pattern[4]) % Len(ALL_CARDS)) + 1],
       ALL_CARDS[((offset + pattern[5]) % Len(ALL_CARDS)) + 1] >>

Hands == { HandAt(o, p) : o \in HandOffsets, p \in HandPatterns }

HandsInit ==
    /\ rng = 0 /\ seed0 = 0
    /\ maxCalls = 0 /\ served = 0 /\ history = <<>>
    /\ pc = "idle" /\ call = NoCall /\ response = NoResponse
    /\ NoLocals
    /\ hand_a \in Hands /\ hand_b \in Hands
    /\ value_a = <<>> /\ value_b = <<>>
    /\ bh_cards = <<>> /\ bh_best = <<>>
    /\ ApiOff

\* _hand_value on both hands.
Evaluate ==
    /\ value_a = <<>>
    /\ value_a' = _hand_value(hand_a)
    /\ value_b' = _hand_value(hand_b)
    /\ UNCHANGED <<rng, seed0, maxCalls, served, history, pc, call, response,
                   hand_a, hand_b, bh_cards, bh_best>>
    /\ UNCHANGED localVars
    /\ UNCHANGED apiVars

HandsNext == Evaluate

HandsSpec == HandsInit /\ [][HandsNext]_vars

(***************************************************************************)
(* _best_hand_value on its own                                             *)
(***************************************************************************)

\* The cards added to a 5-card hand to make 6 or 7: positions of ALL_CARDS.
ExtraPositions == {1, 6, 19, 45, 52}

\* The sequences of 0, 1 or 2 cards of ExtraPositions that are not in `hand`.
Extras(hand) ==
    LET free == {i \in ExtraPositions : ~ListIn(ALL_CARDS[i], hand)}
    IN  {<<>>} \cup {<<ALL_CARDS[i]>> : i \in free}
               \cup {<<ALL_CARDS[q[1]], ALL_CARDS[q[2]]>> :
                        q \in {r \in free \X free : r[1] # r[2]}}

\* The orders in which the same cards are given: as they are, reversed, and
\* rotated by two places.
Rotated(xs, shift) == [i \in 1..Len(xs) |-> xs[((i - 1 + shift) % Len(xs)) + 1]]
Reversed(xs) == [i \in 1..Len(xs) |-> xs[Len(xs) + 1 - i]]
Orders(xs) == {xs, Reversed(xs), Rotated(xs, 2)}

BestInit ==
    /\ rng = 0 /\ seed0 = 0
    /\ maxCalls = 0 /\ served = 0 /\ history = <<>>
    /\ pc = "idle" /\ call = NoCall /\ response = NoResponse
    /\ NoLocals
    /\ hand_a \in Hands /\ hand_b = <<>>
    /\ value_a = <<>> /\ value_b = <<>>
    /\ bh_cards = <<>> /\ bh_best = <<>>
    /\ ApiOff

\* _best_hand_value(cards) on a hand and up to two more cards, in some order.
BestHand ==
    /\ bh_cards = <<>>
    /\ \E extra \in Extras(hand_a) : bh_cards' \in Orders(hand_a \o extra)
    /\ bh_best' = _best_hand_value(bh_cards')
    /\ UNCHANGED <<rng, seed0, maxCalls, served, history, pc, call, response,
                   hand_a, hand_b, value_a, value_b>>
    /\ UNCHANGED localVars
    /\ UNCHANGED apiVars

BestNext == BestHand

BestSpec == BestInit /\ [][BestNext]_vars


(***************************************************************************)
(* The /preflop handler                                                    *)
(***************************************************************************)

\* Query parameters, as characters.
CardsParams ==
    { None, <<>>,
      <<"A", "s", ",", "A", "d">>,
      <<" ", "a", "S", " ", ",", "k", "h">>,
      <<"7", "h", ",", "2", "c">>,
      <<"A", "s", ",", "a", "S">>,
      <<"A", "s">>,
      <<"A", "s", ",", "A", "d", ",", "K", "h">>,
      <<"X", "s", ",", "A", "d">>,
      <<"A", "s", "A", "d">>,
      <<"A", "x", ",", "A", "d">> }

PlayersParams ==
    { None, <<>>, <<"3">>, <<"1", "0">>, <<"1", "1">>, <<"1">>, <<"-", "2">>,
      <<"s", "i", "x">> }

ModeParams ==
    { None, <<>>, ModeSolver, ModeHeuristic,
      <<" ", "H", "e", "u", "r", "i", "s", "t", "i", "c">>,
      <<"c", "h", "e", "n">>, <<" ">> }

TimeoutParams ==
    { None, <<>>, <<"5", "0", "0">>, <<"1", "0", "0">>, <<"2", "0", "0", "0">>,
      <<"9", "9">>, <<"2", "0", "0", "1">>, <<"1", "s">> }

Queries ==
    { [cards |-> c, players |-> n, mode |-> m, timeoutMs |-> t] :
        c \in CardsParams, n \in PlayersParams, m \in ModeParams, t \in TimeoutParams }

\* What a solver that answers 200 reports (win_prob in units of 1/10000), and
\* the latency measured.
SolverResults ==
    { [win_prob |-> 8600, recommendation |-> "raise", iterations |-> 3000],
      [win_prob |-> 3100, recommendation |-> "fold", iterations |-> 100] }

Latencies == {0, 112}

\* The settings: the fallback switch, and DEFAULT_TIMEOUT_MS as deployed (it
\* is not validated).
DefaultTimeouts == {DEFAULT_TIMEOUT_MS, API_TIMEOUT_MIN \div 2}

ApiInit ==
    /\ rng = 0 /\ seed0 = 0
    /\ maxCalls = 0 /\ served = 0 /\ history = <<>>
    /\ pc = "idle" /\ call = NoCall /\ response = NoResponse
    /\ NoLocals
    /\ hand_a = <<>> /\ hand_b = <<>> /\ value_a = <<>> /\ value_b = <<>>
    /\ bh_cards = <<>> /\ bh_best = <<>>
    /\ chen_fallback_enabled \in BOOLEAN
    /\ default_timeout_ms \in DefaultTimeouts
    /\ ApiIdle

\* The first validation error of lines 142-145, or "" when there is none.
FirstError(q, default_ms) ==
    IF ~_parse_cards(q.cards).ok THEN _parse_cards(q.cards).error
    ELSE IF ~_parse_players(q.players).ok THEN _parse_players(q.players).error
    ELSE IF ~_parse_mode(q.mode).ok THEN _parse_mode(q.mode).error
    ELSE IF ~_parse_timeout(q.timeoutMs, default_ms).ok
         THEN _parse_timeout(q.timeoutMs, default_ms).error
    ELSE ""

\* preflop up to its await (lines 139-161): validation, the heuristic mode,
\* and the call of solver_client.evaluate.
Preflop ==
    /\ api_pc = "idle"
    /\ \E q \in Queries :
        /\ query' = q
        /\ IF FirstError(q, default_timeout_ms) # ""
           THEN /\ api_response' =
                      _error_response(
                          IF FirstError(q, default_timeout_ms) = "missing_cards"
                          THEN 422 ELSE 400,
                          FirstError(q, default_timeout_ms))
                /\ parsed_cards' = None /\ player_count' = None
                /\ mode_value' = None /\ timeout_value' = None
                /\ api_pc' = "done"
                /\ UNCHANGED solver_calls
           ELSE /\ parsed_cards' = _parse_cards(q.cards).value
                /\ player_count' = _parse_players(q.players).value
                /\ mode_value' = _parse_mode(q.mode).value
                /\ timeout_value' = _parse_timeout(q.timeoutMs, default_timeout_ms).value
                /\ IF mode_value' = ModeHeuristic
                   THEN /\ api_response' =
                              _build_heuristic_response(parsed_cards', player_count',
                                                        "chen:v1", "mode=heuristic")
                        /\ api_pc' = "done"
                        /\ UNCHANGED solver_calls
                   ELSE /\ solver_calls' = solver_calls + 1
                        /\ api_pc' = "await"
                        /\ UNCHANGED api_response
    /\ UNCHANGED <<chen_fallback_enabled, default_timeout_ms, solver_outcome>>
    /\ UNCHANGED <<rng, seed0, maxCalls, served, history, pc, call, response>>
    /\ UNCHANGED localVars
    /\ UNCHANGED handVars

\* The solver call ends and preflop returns (solver_client.py lines 51-79,
\* app.py lines 161-195).
SolverReturns ==
    /\ api_pc = "await"
    /\ \E o \in HttpOutcomes, result \in SolverResults, latency_ms \in Latencies :
        /\ solver_outcome' = o
        /\ api_response' =
              CASE SolverClientEvaluate(o) = "return" ->
                     _build_solver_response(parsed_cards, player_count, result, latency_ms)
                [] SolverClientEvaluate(o) = "SolverTimeoutError" ->
                     IF ~chen_fallback_enabled
                     THEN _error_response(504, "solver_timeout")
                     ELSE _build_heuristic_response(parsed_cards, player_count,
                                                    "solver:v1+fallback", "timeout")
                [] SolverClientEvaluate(o) = "SolverServiceError" ->
                     IF ~chen_fallback_enabled
                     THEN _error_response(502, "solver_unavailable")
                     ELSE _build_heuristic_response(parsed_cards, player_count,
                                                    "solver:v1+fallback", "solver_error")
                [] OTHER -> _error_response(500, "internal_error")
    /\ api_pc' = "done"
    /\ UNCHANGED <<chen_fallback_enabled, default_timeout_ms, query, parsed_cards,
                   player_count, mode_value, timeout_value, solver_calls>>
    /\ UNCHANGED <<rng, seed0, maxCalls, served, history, pc, call, response>>
    /\ UNCHANGED localVars
    /\ UNCHANGED handVars

ApiNext == Preflop \/ SolverReturns

ApiSpec == ApiInit /\ [][ApiNext]_vars

(***************************************************************************)
(* What the interface promises, stated without the code's own checks       *)
(***************************************************************************)

RankSymbols == {"2", "3", "4", "5", "6", "7", "8", "9", "T", "J", "Q", "K", "A"}
SuitSymbols == {"c", "d", "h", "s"}

\* A rank (suit) symbol of the interface: one character, any case.
IsRankSymbol(x) == Len(x) = 1 /\ UpperChar(x[1]) \in RankSymbols
IsSuitSymbol(x) == Len(x) = 1 /\ LowerChar(x[1]) \in SuitSymbols

\* The two hero cards are the same card, compared without case.
SameHeroCards(b) ==
    /\ Upper(b.ranks[1]) = Upper(b.ranks[2])
    /\ Lower(b.suits[1]) = Lower(b.suits[2])

SymbolsValid(b) ==
    /\ \A i \in 1..2 : IsRankSymbol(b.ranks[i])
    /\ \A i \in 1..2 : IsSuitSymbol(b.suits[i])

RangesValid(b) ==
    /\ b.players \in PLAYERS_MIN..PLAYERS_MAX
    /\ b.max_time_ms \in MAX_TIME_MS_MIN..MAX_TIME_MS_MAX

ValidBody(b) == SymbolsValid(b) /\ RangesValid(b) /\ ~SameHeroCards(b)

\* A call has been received.
Received == call # NoCall

\* The last call was refused and no part of _simulate has run for it.
Refused ==
    /\ pc = "idle"
    /\ response.status \in {400, 422}
    /\ completed = 0 /\ deck = <<>> /\ deck_cards = <<>>

\* The last call has returned its response.
Returned == pc = "idle" /\ response.status = 200

(***************************************************************************)
(* Claims                                                                  *)
(***************************************************************************)

\* C1: in every result returned for a valid request, the win, tie and loss
\* probabilities lie in [0,1], win = wins/completed, tie = tieCredit/completed,
\* loss = 1 - win - tie, they sum to 1 exactly, and the three fields rounded
\* to 4 places sum to 1 within one unit of the last place.
C1_ProbabilitiesSumToOne ==
    Returned =>
        /\ ValidBody(call.body)
        /\ response.den = TieUnits * Max2(completed, 1)
        /\ response.win = TieUnits * wins
        /\ response.tie = ties
        /\ response.win \in 0..response.den
        /\ response.tie \in 0..response.den
        /\ response.loss \in 0..response.den
        /\ response.win + response.tie + response.loss = response.den
        /\ response.win_prob \in 0..10000
        /\ response.tie_prob \in 0..10000
        /\ response.loss_prob \in 0..10000
        /\ response.win_prob + response.tie_prob + response.loss_prob
              \in 9999..10001

\* A result with won, tied and lost trials.
C1_Witness ==
    /\ Returned
    /\ response.win > 0 /\ response.tie > 0 /\ response.loss > 0

\* C2: a request whose two hero cards are the same card (case-insensitively)
\* is refused with an error response whatever the players and the budget
\* (400 when the rest of the request is valid), and no trial is run for it.
C2_DuplicateHeroRefused ==
    (Received /\ SameHeroCards(call.body)) =>
        /\ Refused
        /\ (SymbolsValid(call.body) /\ RangesValid(call.body)) => response.status = 400

\* A duplicate hand in mixed case, refused by evaluate itself.
C2_Witness ==
    /\ Received /\ SameHeroCards(call.body)
    /\ call.body.ranks[1] # call.body.ranks[2]
    /\ response.status = 400

\* C3: a request with a rank or suit symbol outside the alphabet (an empty or
\* a multi-character string included), players outside 2..10 or a budget
\* outside 100..5000 is refused with an error and the simulation never starts.
C3_InvalidRequestRefused ==
    (Received /\ ~(SymbolsValid(call.body) /\ RangesValid(call.body))) => Refused

\* A multi-character rank that the request model lets through (it is a
\* substring of ALL_RANKS) and evaluate refuses.
C3_Witness ==
    /\ Received
    /\ \E i \in 1..2 : Len(call.body.ranks[i]) = 2
    /\ SolverRequestOk(call.body)
    /\ Refused /\ response.status = 400

\* C4: once the inputs validate, the simulation and the aggregation never
\* fail, whatever the cap and the shuffles; with a cap of zero the result is
\* completed 0, win 0, tie 0, loss 1.
C4_SimulationTotal ==
    (Received /\ ValidBody(call.body)) =>
        /\ response.status \in {0, 200}
        /\ pc = "idle" => response.status = 200
        /\ (pc = "idle" /\ iterations = 0) =>
              /\ completed = 0
              /\ response.iterations = 0
              /\ response.win = 0 /\ response.tie = 0
              /\ response.loss = response.den
              /\ response.win_prob = 0 /\ response.tie_prob = 0
              /\ response.loss_prob = 10000

\* A result for a cap of zero.
C4_Witness == Returned /\ iterations = 0 /\ response.loss_prob = 10000

\* The loop condition of _simulate: the cap is reached, or the loop is at a
\* checkpoint (a positive multiple of CHECK_EVERY trials) with the budget used up.
CapReached == completed = iterations
AtCheckpoint == completed > 0 /\ completed % CHECK_EVERY = 0
BudgetUsed == elapsed_ms >= max_time_ms

C5_StopCondition ==
    /\ pc = "exit" => (CapReached \/ (AtCheckpoint /\ BudgetUsed))
    /\ pc = "loop" => (~CapReached /\ ~(AtCheckpoint /\ BudgetUsed))
    /\ completed <= iterations

\* C5: the loop has stopped exactly when the cap is reached or, at a
\* checkpoint, the budget is used up (so a loop that stops before the cap has
\* completed a positive multiple of 100 trials), and it always stops.
C5_LoopStops == []C5_StopCondition /\ (pc = "loop" ~> pc = "exit")

\* The loop stopped by the budget at the second checkpoint.
C5_Witness ==
    /\ pc = "exit" /\ completed < iterations
    /\ completed = 2 * CHECK_EVERY

\* No trial follows a checkpoint at which the budget was used up.
NoTrialAfterCheckpoint ==
    (pc \in {"loop", "exit"} /\ AtCheckpoint /\ BudgetUsed) => completed' = completed

\* C6: from the moment the elapsed time reaches the budget the loop completes
\* at most 100 further trials, and no trial is run after a checkpoint at which
\* the budget was used up.
C6_BudgetRespected ==
    [](since_over <= CHECK_EVERY) /\ [][NoTrialAfterCheckpoint]_vars

\* The budget is used up during the first trial and the loop runs on to the
\* first checkpoint.
C6_Witness == pc = "exit" /\ since_over = CHECK_EVERY /\ completed < iterations

\* C7: `iterations` of the result is the number of completed trials; it never
\* exceeds the cap, which evaluate derives in 3000..50000 for every valid
\* request.
C7_IterationsReported ==
    /\ served = 0 =>
          \A p \in PLAYERS_MIN..PLAYERS_MAX, t \in MAX_TIME_MS_MIN..MAX_TIME_MS_MAX :
              _iterations_for_budget(t, p) \in ITERATIONS_MIN..ITERATIONS_MAX
    /\ Returned =>
          /\ response.iterations = completed
          /\ response.iterations <= iterations
          /\ call.entry = "evaluate" =>
                /\ iterations = _iterations_for_budget(max_time_ms, players)
                /\ iterations \in ITERATIONS_MIN..ITERATIONS_MAX

\* A result of evaluate with fewer trials than the cap.
C7_Witness ==
    /\ Returned /\ call.entry = "evaluate"
    /\ response.iterations > 0 /\ response.iterations < iterations

\* C8 (as claimed): two calls with identical inputs (hero cards, players, cap,
\* budget, and the same clock) return the same (wins, tieCredit, completed).
C8_Deterministic ==
    \A i \in 1..Len(history), j \in 1..Len(history) :
        history[i].call = history[j].call =>
            /\ history[i].wins = history[j].wins
            /\ history[i].ties = history[j].ties
            /\ history[i].completed = history[j].completed

\* C9 (as claimed): every trial of a call deals the deck the call would have
\* dealt had no other call run: no call reads generator state another wrote.
C9_CallsIsolated ==
    (pc \in {"loop", "exit"} /\ completed > 0) =>
        /\ deck = solo_deck
        /\ rng = solo_rng

\* The category of a hand value.
Category(v) == v[1]

\* The kinds of 5-card hand the ordering is claimed for, told from the cards.
HandRanks(h) == {RANK_TO_VALUE[h[i][1]] : i \in 1..Len(h)}
HandSuits(h) == {h[i][2] : i \in 1..Len(h)}
RankCount(h, r) == Cardinality({i \in 1..Len(h) : RANK_TO_VALUE[h[i][1]] = r})
IsFourOfAKind(h) == \E r \in HandRanks(h) : RankCount(h, r) = 4
IsFullHouse(h) == Cardinality(HandRanks(h)) = 2 /\ ~IsFourOfAKind(h)
IsStraightFlush(h) ==
    /\ Cardinality(HandSuits(h)) = 1
    /\ \/ \E lo \in 2..10 : HandRanks(h) = lo..(lo + 4)
       \/ HandRanks(h) = {14, 2, 3, 4, 5}

\* C10: hand values are ordered with the category first: the hand of the
\* higher category is strictly greater whatever the tiebreaks (a straight
\* flush above every four of a kind, that above every full house), and two
\* values compare equal only when they are the same tuple.
C10_CategoryFirst ==
    value_a # <<>> =>
        /\ Category(value_a) \in 0..8 /\ Category(value_b) \in 0..8
        /\ Category(value_a) > Category(value_b) =>
              (TupleLess(value_b, value_a) /\ ~TupleLess(value_a, value_b))
        /\ (IsStraightFlush(hand_a) /\ IsFourOfAKind(hand_b)) =>
              TupleLess(value_b, value_a)
        /\ (IsFourOfAKind(hand_a) /\ IsFullHouse(hand_b)) =>
              TupleLess(value_b, value_a)
        /\ (IsStraightFlush(hand_a) /\ IsFullHouse(hand_b)) =>
              TupleLess(value_b, value_a)
        /\ (~TupleLess(value_a, value_b) /\ ~TupleLess(value_b, value_a))
              <=> value_a = value_b
        /\ ~(TupleLess(value_a, value_b) /\ TupleLess(value_b, value_a))

\* A straight flush with a low tiebreak against four of a kind with a high one.
C10_Witness ==
    /\ value_a # <<>>
    /\ IsStraightFlush(hand_a) /\ IsFourOfAKind(hand_b)
    /\ Category(value_a) = 8 /\ Category(value_b) = 7
    /\ value_a[2] < value_b[2]

\* Hands told from the cards: the wheel, the 6-high straight, and a hand of
\* five ranks around the ace that are not consecutive.
IsWheel(h) == HandRanks(h) = {14, 2, 3, 4, 5}
IsSixHigh(h) == HandRanks(h) = 2..6
IsFlushHand(h) == Cardinality(HandSuits(h)) = 1
ConsecutiveRanks(h) == IsWheel(h) \/ \E lo \in 2..10 : HandRanks(h) = lo..(lo + 4)

\* C11: the wheel A,2,3,4,5 is a straight with high card 5: (4, 5) with mixed
\* suits, (8, 5) with one suit, strictly below the 6-high straight of the
\* same kind; a hand with an ace and no five consecutive ranks is no straight.
C11_WheelIsFiveHigh ==
    value_a # <<>> =>
        /\ (IsWheel(hand_a) /\ ~IsFlushHand(hand_a)) => value_a = <<4, 5>>
        /\ (IsWheel(hand_a) /\ IsFlushHand(hand_a)) => value_a = <<8, 5>>
        /\ (IsWheel(hand_a) /\ IsSixHigh(hand_b)
              /\ (IsFlushHand(hand_a) <=> IsFlushHand(hand_b))) =>
                 /\ TupleLess(value_a, value_b)
                 /\ Category(value_a) = Category(value_b)
                 /\ value_b[2] = 6
        /\ (14 \in HandRanks(hand_a) /\ ~ConsecutiveRanks(hand_a)) =>
              Category(value_a) \notin {4, 8}

\* The wheel of mixed suits against the 6-high straight of mixed suits, with
\* Q,K,A,2,3 seen as well.
C11_Witness ==
    /\ value_a = <<4, 5>> /\ IsWheel(hand_a)
    /\ IsSixHigh(hand_b) /\ ~IsFlushHand(hand_b)
    /\ \E o \in HandOffsets, p \in HandPatterns :
          /\ HandRanks(HandAt(o, p)) = {12, 13, 14, 2, 3}
          /\ Category(_hand_value(HandAt(o, p))) \in {0, 5}

\* The 5-card subsets of a sequence of cards, each in the order of the sequence.
FiveCardSubsets(xs) ==
    { [i \in 1..5 |-> xs[CHOOSE k \in T : Cardinality({m \in T : m < k}) = i - 1]] :
        T \in {U \in SUBSET (1..Len(xs)) : Cardinality(U) = 5} }

\* C12: for 5, 6 or 7 distinct cards _best_hand_value returns the maximum of
\* the values of all 5-card subsets (1, 6 or 21 of them): the value of one
\* subset, below that of no subset; for 5 cards the value of the 5 cards; and
\* the same value in whatever order the cards are given.
C12_BestIsMaximum ==
    bh_cards # <<>> =>
        /\ Len(bh_cards) \in 5..7
        /\ Cardinality({bh_cards[i] : i \in 1..Len(bh_cards)}) = Len(bh_cards)
        /\ Cardinality(FiveCardSubsets(bh_cards))
              = CASE Len(bh_cards) = 5 -> 1 [] Len(bh_cards) = 6 -> 6 [] OTHER -> 21
        /\ \E sub \in FiveCardSubsets(bh_cards) : _hand_value(sub) = bh_best
        /\ \A sub \in FiveCardSubsets(bh_cards) : ~TupleLess(bh_best, _hand_value(sub))
        /\ Len(bh_cards) = 5 => bh_best = _hand_value(hand_a)
        /\ \A other \in Orders(bh_cards) : _best_hand_value(other) = bh_best

\* Seven cards, given in another order than the hand's, whose best hand is
\* better than the hand they extend.
C12_Witness ==
    /\ Len(bh_cards) = 7
    /\ SubSeq(bh_cards, 1, 5) # hand_a
    /\ TupleLess(_hand_value(hand_a), bh_best)
    /\ TupleLess(_hand_value(SubSeq(bh_cards, 1, 5)), bh_best)

\* C13 (as claimed): the recommendation follows from the win probability the
\* result reports (rounded to 4 places): raise from 0.70, call from 0.50 and
\* below 0.70, fold otherwise.
C13_RecommendationByResult ==
    Returned =>
        response.recommendation =
            IF response.win_prob >= 7000 THEN "raise"
            ELSE IF response.win_prob >= 5000 THEN "call"
            ELSE "fold"

\* C13 (what evaluate does): the recommendation follows from
\* wins / max(completed, 1) before rounding: raise from 0.70, call from 0.50 and below 0.70, fold
\* otherwise; the reported win probability is within half a unit of the
\* fourth place of it, so the two disagree only when the reported value is
\* exactly 0.7000 or 0.5000.
C13_RecommendationByTally ==
    Returned =>
        /\ response.recommendation =
              IF 10 * wins >= 7 * Max2(completed, 1) THEN "raise"
              ELSE IF 10 * wins >= 5 * Max2(completed, 1) THEN "call"
              ELSE "fold"
        /\ response.win_prob > 7000 => response.recommendation = "raise"
        /\ response.win_prob < 7000 => response.recommendation # "raise"
        /\ response.win_prob > 5000 => response.recommendation # "fold"
        /\ response.win_prob < 5000 => response.recommendation = "fold"

\* Results exactly at the thresholds.
C13_AtThreshold ==
    /\ Returned /\ completed >= 10
    /\ \/ 10 * wins = 7 * completed /\ response.recommendation = "raise"
       \/ 2 * wins = completed /\ response.recommendation = "call"

(***************************************************************************)
(* The /preflop API                                                        *)
(***************************************************************************)

\* The solver call timed out: the HTTP client gave up, or the solver answered 408.
SolverTimedOut ==
    \/ solver_outcome.kind = "TimeoutException"
    \/ solver_outcome.kind = "response" /\ solver_outcome.code = 408

\* The solver call failed otherwise: a transport error or an answer other than
\* 200 and 408.
SolverFailed ==
    \/ solver_outcome.kind = "HTTPError"
    \/ solver_outcome.kind = "response" /\ solver_outcome.code \notin {200, 408}

\* The response is the heuristic evaluation of the request's cards, given as
\* a fallback for the reason.
IsFallbackResponse(reason) ==
    /\ api_response.status = 200
    /\ api_response.method = "solver:v1+fallback"
    /\ api_response.fallback = reason
    /\ api_response.solverLatencyMs = 0
    /\ api_response.score = chen_score(parsed_cards)
    /\ api_response.winProbability =
           chen_percentile(chen_score(parsed_cards), player_count)
    /\ api_response.cards = format_cards(parsed_cards)
    /\ api_response.players = player_count

\* C14: when the solver call of a validated solver-mode request ends in a
\* timeout, the response is the heuristic evaluation with method
\* "solver:v1+fallback", fallback "timeout", solverLatencyMs 0 and the Chen
\* score if the fallback is enabled, and 504 "solver_timeout" if it is not;
\* when it ends in a service error, the fallback reason is "solver_error" and
\* the error 502 "solver_unavailable"; the solver has been called once.
C14_FallbackOrError ==
    (api_pc = "done" /\ (SolverTimedOut \/ SolverFailed)) =>
        /\ solver_calls = 1
        /\ SolverTimedOut =>
              IF chen_fallback_enabled THEN IsFallbackResponse("timeout")
              ELSE api_response = [status |-> 504, error |-> "solver_timeout"]
        /\ SolverFailed =>
              IF chen_fallback_enabled THEN IsFallbackResponse("solver_error")
              ELSE api_response = [status |-> 502, error |-> "solver_unavailable"]

\* C14 witness: the solver answered 408 to a request for a pair of aces among
\* ten players; the fallback gives the Chen score of the pair.
C14_Witness ==
    /\ api_pc = "done" /\ chen_fallback_enabled
    /\ solver_outcome = [kind |-> "response", code |-> 408]
    /\ query.cards = <<"A", "s", ",", "A", "d">>
    /\ query.players = <<"1", "0">>
    /\ api_response.status = 200
    /\ api_response.fallback = "timeout"
    /\ api_response.score = 20

\* The parameters that are acceptable, by what they say.
AcceptableCards ==
    { <<"A", "s", ",", "A", "d">>,
      <<" ", "a", "S", " ", ",", "k", "h">>,
      <<"7", "h", ",", "2", "c">> }
AcceptablePlayers == {None, <<>>, <<"3">>, <<"1", "0">>}
SolverModes == {None, <<>>, ModeSolver}
HeuristicModes == {ModeHeuristic, <<" ", "H", "e", "u", "r", "i", "s", "t", "i", "c">>}
AcceptableTimeouts ==
    {None, <<>>, <<"5", "0", "0">>, <<"1", "0", "0">>, <<"2", "0", "0", "0">>}

\* The request passes every validation.
RequestValid ==
    /\ query.cards \in AcceptableCards
    /\ query.players \in AcceptablePlayers
    /\ query.mode \in SolverModes \cup HeuristicModes
    /\ query.timeoutMs \in AcceptableTimeouts

\* C15: the solver client is invoked at most once per request, and only for
\* a request whose cards, players, mode and timeout are all valid and whose
\* mode is solver; missing cards give 422 missing_cards, invalid cards 400,
\* players outside 2..10 400 invalid_players, an invalid mode or a timeout
\* outside 100..2000 400, and mode=heuristic 200 with method "chen:v1", none
\* of them with a call of the solver.
C15_SolverOnlyAfterValidation ==
    /\ solver_calls \in {0, 1}
    /\ solver_calls = 1 => (RequestValid /\ query.mode \in SolverModes)
    /\ api_pc # "idle" =>
        /\ (RequestValid /\ query.mode \in SolverModes) => solver_calls = 1
        /\ query.cards = None =>
              api_response = [status |-> 422, error |-> "missing_cards"]
        /\ query.cards \notin AcceptableCards \cup {None} =>
              api_response = [status |-> 400, error |-> "invalid_cards"]
        /\ (query.cards \in AcceptableCards
              /\ query.players \notin AcceptablePlayers) =>
              api_response = [status |-> 400, error |-> "invalid_players"]
        /\ (query.cards \in AcceptableCards /\ query.players \in AcceptablePlayers
              /\ (query.mode \notin SolverModes \cup HeuristicModes
                    \/ query.timeoutMs \notin AcceptableTimeouts)) =>
              api_response.status = 400
        /\ (RequestValid /\ query.mode \in HeuristicModes) =>
              /\ api_response.status = 200
              /\ api_response.method = "chen:v1"

\* C15 witness: a request that passed every validation reached the solver,
\* which answered.
C15_Witness ==
    /\ api_pc = "done" /\ solver_calls = 1
    /\ query.players = <<"1", "0">> /\ query.timeoutMs = <<"2", "0", "0", "0">>
    /\ query.mode = None
    /\ api_response.status = 200
    /\ api_response.method = "solver:v1"

(***************************************************************************)
(* The rank of five cards, told from the cards                             *)
(***************************************************************************)

\* The ranks of a set, highest first.
RECURSIVE Descending(_)
Descending(S) ==
    IF S = {} THEN <<>>
    ELSE LET top == CHOOSE r \in S : \A o \in S : o <= r
         IN  <<top>> \o Descending(S \ {top})

\* The ranks held exactly n times.
RanksHeld(h, n) == {r \in HandRanks(h) : RankCount(h, r) = n}

\* The high card of a straight: 5 for the wheel.
StraightHighOf(h) ==
    IF IsWheel(h) THEN 5 ELSE CHOOSE r \in HandRanks(h) : \A o \in HandRanks(h) : o <= r

\* The highest category that the five cards match, with its tiebreak.
RankOf(h) ==
    IF IsFlushHand(h) /\ ConsecutiveRanks(h) THEN <<8, StraightHighOf(h)>>
    ELSE IF RanksHeld(h, 4) # {}
         THEN <<7>> \o Descending(RanksHeld(h, 4)) \o Descending(RanksHeld(h, 1))
    ELSE IF RanksHeld(h, 3) # {} /\ RanksHeld(h, 2) # {}
         THEN <<6>> \o Descending(RanksHeld(h, 3)) \o Descending(RanksHeld(h, 2))
    ELSE IF IsFlushHand(h) THEN <<5>> \o Descending(HandRanks(h))
    ELSE IF ConsecutiveRanks(h) THEN <<4, StraightHighOf(h)>>
    ELSE IF RanksHeld(h, 3) # {}
         THEN <<3>> \o Descending(RanksHeld(h, 3)) \o Descending(RanksHeld(h, 1))
    ELSE IF Cardinality(RanksHeld(h, 2)) = 2
         THEN <<2>> \o Descending(RanksHeld(h, 2)) \o Descending(RanksHeld(h, 1))
    ELSE IF RanksHeld(h, 2) # {}
         THEN <<1>> \o Descending(RanksHeld(h, 2)) \o Descending(RanksHeld(h, 1))
    ELSE <<0>> \o Descending(HandRanks(h))

\* No rank occurs twice in the tiebreak.
TiebreakDistinct(v) ==
    \A i, j \in 2..Len(v) : i # j => v[i] # v[j]

\* C16: five distinct cards have exactly one rank: the category, in 0..8, is
\* the highest one the cards match, and the tiebreak is the one prescribed
\* for it (straight high; quad rank and kicker; trip and pair rank; the five
\* ranks descending; trip rank and the two others descending; high pair, low
\* pair, kicker; pair rank and the three others descending); a kicker never
\* repeats a rank already consumed.
C16_RankByCategory ==
    value_a # <<>> =>
        /\ value_a = RankOf(hand_a) /\ value_b = RankOf(hand_b)
        /\ Category(value_a) \in 0..8 /\ Category(value_b) \in 0..8
        /\ TiebreakDistinct(value_a) /\ TiebreakDistinct(value_b)

\* C16 witness: two pair with its kicker against three of a kind with its two
\* kickers.
C16_Witness ==
    /\ value_a # <<>>
    /\ Category(value_a) = 2 /\ Len(value_a) = 4
    /\ Category(value_b) = 3 /\ Len(value_b) = 4
    /\ value_a = RankOf(hand_a) /\ value_b = RankOf(hand_b)

(***************************************************************************)
(* The trials of _simulate                                                 *)
(***************************************************************************)

\* Hero's hand beats the hand of every opponent.
HeroBeatsAll(hv, ovs) == \A i \in 1..Len(ovs) : TupleLess(ovs[i], hv)

\* The opponents whose hand equals hero's.
TiedOpponents(hv, ovs) == {i \in 1..Len(ovs) : ovs[i] = hv}

\* Hero's hand equals the best hand among the opponents.
HeroTiesBest(hv, ovs) ==
    /\ TiedOpponents(hv, ovs) # {}
    /\ \A i \in 1..Len(ovs) : ~TupleLess(hv, ovs[i])

\* A pass of the loop with opponents at the table.
TrialStep == pc = "loop" /\ opponent_values' # <<>>

\* C17: each trial has exactly one outcome: hero's hand beats every opponent's
\* and wins grows by 1 with the tie credit unchanged; or it equals the best
\* opponent hand, held by k >= 1 opponents, and the tie credit grows by
\* 1/(1 + k) with wins unchanged; or neither changes; completed grows by 1 in
\* every case.
C17_OneOutcomePerTrial ==
    [][TrialStep =>
        /\ completed' = completed + 1
        /\ ~(HeroBeatsAll(hero_value', opponent_values')
               /\ HeroTiesBest(hero_value', opponent_values'))
        /\ HeroBeatsAll(hero_value', opponent_values') =>
              (wins' = wins + 1 /\ ties' = ties)
        /\ HeroTiesBest(hero_value', opponent_values') =>
              /\ wins' = wins
              /\ (1 + Cardinality(TiedOpponents(hero_value', opponent_values')))
                    * (ties' - ties) = TieUnits
        /\ (~HeroBeatsAll(hero_value', opponent_values')
              /\ ~HeroTiesBest(hero_value', opponent_values')) =>
              (wins' = wins /\ ties' = ties)]_vars

\* C17 witness: after wins and losses, a trial in which hero's hand equals
\* the best opponent hand has been counted.
C17_Witness ==
    /\ pc \in {"loop", "exit"} /\ completed > wins /\ wins > 0 /\ ties > 0
    /\ HeroTiesBest(hero_value, opponent_values)
    /\ Len(opponent_values) >= 2

\* The cards of a list, as a set.
CardsOf(xs) == {xs[i] : i \in 1..Len(xs)}

\* The cards dealt to the opponents in the trial on the working deck.
OpponentsDealt(n, shuffled) ==
    UNION {CardsOf(OpponentCards(shuffled, k)) : k \in 1..(n - 1)}

\* A list holds exactly the 50 cards that are not hero's, each once.
IsFiftyWithoutHero(xs) ==
    /\ Len(xs) = 50
    /\ Cardinality(CardsOf(xs)) = 50
    /\ CardsOf(xs) = CardsOf(ALL_CARDS) \ CardsOf(hero_cards)

\* C18: in every trial with 2..10 players the working deck is exactly the 50
\* distinct cards that are not hero's; the 5 board cards and the 2 cards of
\* each opponent all come from it and are pairwise distinct, with hero's
\* cards too; the base deck is the same 50 cards at the start of every trial.
C18_DeckOfFifty ==
    (pc \in {"loop", "exit"} /\ players \in PLAYERS_MIN..PLAYERS_MAX) =>
        /\ IsFiftyWithoutHero(deck_cards)
        /\ completed > 0 =>
            /\ IsFiftyWithoutHero(deck)
            /\ Len(TrialBoard(deck)) = 5
            /\ \A k \in 1..(players - 1) : Len(OpponentCards(deck, k)) = 2
            /\ CardsOf(TrialBoard(deck)) \cup OpponentsDealt(players, deck)
                  \subseteq CardsOf(deck)
            /\ Cardinality(CardsOf(hero_cards) \cup CardsOf(TrialBoard(deck))
                              \cup OpponentsDealt(players, deck))
                  = 2 + 5 + 2 * (players - 1)

\* C18 witness: several trials of a table of ten have been dealt from a
\* shuffled deck.
C18_Witness ==
    /\ pc = "loop" /\ players = PLAYERS_MAX /\ completed > 1
    /\ deck # deck_cards
    /\ Cardinality(OpponentsDealt(players, deck)) = 18

\* C19: the tally of _simulate: wins and the tie credit are never negative
\* and together never exceed the completed trials; a tied trial adds at most
\* 1/2, so wins plus twice the tie credit does not exceed them either; hence
\* 1 - win - tie of the result is never negative and max(0, ...) leaves it
\* as it is.
C19_TallyInvariant ==
    /\ wins >= 0 /\ ties >= 0 /\ completed >= 0
    /\ TieUnits * wins + ties <= TieUnits * completed
    /\ TieUnits * wins + 2 * ties <= TieUnits * completed
    /\ Returned =>
          /\ response.den - response.win - response.tie >= 0
          /\ response.loss = response.den - response.win - response.tie
          /\ response.den - response.win - response.tie >= response.tie

\* C19 witness: a result whose tally has wins, tie credit and lost trials,
\* the tie credit being what remains of 1 - win - tie at most.
C19_Witness ==
    /\ Returned /\ wins > 0 /\ ties > 0
    /\ TieUnits * wins + 2 * ties < TieUnits * completed
    /\ response.loss > 0

====
